---- MODULE Spec2Model ----
(***************************************************************************)
(* Model of scripts/wiki/transform_wiki_links.py: the markdown link and    *)
(* image-path rewriter.  A document is a sequence of characters; each      *)
(* character is a one-character string, except NUL and BT which stand for  *)
(* the byte \x00 and the backtick.  Positions are 0-based as in the Python *)
(* source; At and Slice translate them to TLA+ sequences.                  *)
(***************************************************************************)
EXTENDS Integers, Sequences, FiniteSets, TLC

\* ------------------------------------------------------------------------
\* Characters and Python string primitives
\* ------------------------------------------------------------------------

\* the byte \x00
NUL == "NUL"

\* the backtick character (U+0060)
BT == "BT"

\* the letter U+0130, capital I with dot above
IDOT == "IDOT"

\* the combining character U+0307, dot above
DOTABOVE == "DOTABOVE"

LowerLetters == <<"a","b","c","d","e","f","g","h","i","j","k","l","m",
                  "n","o","p","q","r","s","t","u","v","w","x","y","z">>

UpperLetters == <<"A","B","C","D","E","F","G","H","I","J","K","L","M",
                  "N","O","P","Q","R","S","T","U","V","W","X","Y","Z">>

Digits == <<"0","1","2","3","4","5","6","7","8","9">>

\* str.upper() / str.lower() on one character
ToUpper(c) ==
    IF \E k \in 1..26 : LowerLetters[k] = c
    THEN UpperLetters[CHOOSE k \in 1..26 : LowerLetters[k] = c]
    ELSE c

ToLower(c) ==
    IF \E k \in 1..26 : UpperLetters[k] = c
    THEN LowerLetters[CHOOSE k \in 1..26 : UpperLetters[k] = c]
    ELSE c

StrUpper(s) == [k \in 1..Len(s) |-> ToUpper(s[k])]

\* str.lower() of one character: U+0130 lowers to the two characters
\* "i", U+0307; every other character of the model lowers to one character
LowerOf(c) == IF c = IDOT THEN <<"i", DOTABOVE>> ELSE <<ToLower(c)>>

RECURSIVE StrLower(_)
\* str.lower()
StrLower(s) == IF s = <<>> THEN <<>> ELSE LowerOf(Head(s)) \o StrLower(Tail(s))

\* text[i] with a 0-based index (callers guarantee 0 <= i < len(text))
At(s, i) == s[i + 1]

\* text[i] raises IndexError
Raises(s, i) == i < 0 \/ i >= Len(s)

Min(a, b) == IF a < b THEN a ELSE b

\* text[a:b] with 0-based, end-exclusive, clipped bounds
Slice(s, a, b) == SubSeq(s, a + 1, Min(b, Len(s)))

SliceFrom(s, a) == SubSeq(s, a + 1, Len(s))

StartsWith(s, p) == Len(s) >= Len(p) /\ SubSeq(s, 1, Len(p)) = p

EndsWith(s, p) ==
    Len(s) >= Len(p) /\ SubSeq(s, Len(s) - Len(p) + 1, Len(s)) = p

\* sub occurs in s at 0-based index i
OccursAt(s, sub, i) ==
    /\ i >= 0
    /\ i + Len(sub) <= Len(s)
    /\ SubSeq(s, i + 1, i + Len(sub)) = sub

\* str.find(sub, start): lowest index >= start where sub occurs, else -1
Find(s, sub, start) ==
    LET hits == {i \in start..(Len(s) - Len(sub)) : OccursAt(s, sub, i)}
    IN  IF hits = {} THEN -1
        ELSE CHOOSE i \in hits : \A j \in hits : i <= j

Contains(s, sub) == Find(s, sub, 0) # -1

RECURSIVE Concat(_)
\* "".join(parts)
Concat(parts) ==
    IF parts = <<>> THEN <<>> ELSE Head(parts) \o Concat(Tail(parts))

RECURSIVE Split(_, _)
\* str.split(sep) for a one-character separator
Split(s, sep) ==
    LET i == Find(s, <<sep>>, 0)
    IN  IF i = -1 THEN <<s>>
        ELSE <<Slice(s, 0, i)>> \o Split(SliceFrom(s, i + 1), sep)

RECURSIVE Join(_, _)
\* sep.join(parts)
Join(parts, sep) ==
    IF parts = <<>> THEN <<>>
    ELSE IF Len(parts) = 1 THEN parts[1]
    ELSE parts[1] \o sep \o Join(Tail(parts), sep)

RECURSIVE DecimalDigits(_)
\* str(n) for n >= 0
DecimalDigits(n) ==
    IF n < 10 THEN <<Digits[n + 1]>>
    ELSE DecimalDigits(n \div 10) \o <<Digits[(n % 10) + 1]>>

\* ------------------------------------------------------------------------
\* transform_path_to_wiki_page
\* ------------------------------------------------------------------------

DotSlash == <<".", "/">>

DotDotSlash == <<".", ".", "/">>

DotMd == <<".", "m", "d">>

README == <<"R","E","A","D","M","E">>

CHANGELOG == <<"C","H","A","N","G","E","L","O","G">>

Home == <<"H","o","m","e">>

DocsSlash == <<"d","o","c","s","/">>

\* Mutant: the anchor is separated at the last "#"
SeparateAnchorAtLast(full) ==
    LET hs == {k \in 0..(Len(full) - 1) : At(full, k) = "#"}
        h  == IF hs = {} THEN -1 ELSE CHOOSE k \in hs : \A j \in hs : j <= k
    IN  IF h = -1 THEN [path |-> full, anchor |-> <<>>]
        ELSE [path |-> Slice(full, 0, h), anchor |-> <<"#">> \o SliceFrom(full, h + 1)]

\* if "#" in path: path, anchor = path.split("#", 1); anchor = "#" + anchor
SeparateAnchor(full) ==
    LET h == Find(full, <<"#">>, 0)
    IN  IF h = -1 THEN [path |-> full, anchor |-> <<>>]
        ELSE [path |-> Slice(full, 0, h), anchor |-> <<"#">> \o SliceFrom(full, h + 1)]

\* the condition of the while loop
HasPrefix(p) == StartsWith(p, DotSlash) \/ StartsWith(p, DotDotSlash)

\* Mutant: every iteration removes two characters
StripOneTwoCharacters(p) == SliceFrom(p, 2)

\* the body of the while loop: one prefix removed
StripOne(p) ==
    IF StartsWith(p, DotSlash) THEN SliceFrom(p, 2)
    ELSE IF StartsWith(p, DotDotSlash) THEN SliceFrom(p, 3)
    ELSE p

RECURSIVE StripPrefixes(_)
\* while path.startswith("./") or path.startswith("../")
StripPrefixes(p) == IF HasPrefix(p) THEN StripPrefixes(StripOne(p)) ELSE p

\* if path.endswith(".md"): path = path[:-3]
StripMd(p) == IF EndsWith(p, DotMd) THEN Slice(p, 0, Len(p) - 3) ELSE p

\* Mutant: the comparison is case-sensitive
IsReadmeExactCase(p) == p = README

\* path.upper() == "README"
IsReadme(p) == StrUpper(p) = README

\* path.upper() == "CHANGELOG"
IsChangelog(p) == StrUpper(p) = CHANGELOG

\* if path.lower().startswith("docs/"): path = path[5:]
StripDocs(p) == IF StartsWith(StrLower(p), DocsSlash) THEN SliceFrom(p, 5) ELSE p

\* Mutant: the path is not split on "/"
PathPartsUnsplit(p) == <<p>>

\* parts = path.split("/")
PathParts(p) == Split(p, "/")

\* Mutant: the first character is upper-cased, the others are kept
CapitalizeFirstOnly(word) ==
    IF word = <<>> THEN <<>> ELSE <<ToUpper(Head(word))>> \o Tail(word)

\* str.capitalize()
Capitalize(word) ==
    IF word = <<>> THEN <<>> ELSE <<ToUpper(Head(word))>> \o StrLower(Tail(word))

\* [word.capitalize() for word in words if word]
CapitalizedWords(words) ==
    LET F[k \in 0..Len(words)] ==
            IF k = 0 THEN <<>>
            ELSE IF words[k] = <<>> THEN F[k - 1]
            ELSE Append(F[k - 1], Capitalize(words[k]))
    IN  F[Len(words)]

\* the body of the loop over parts
WikiPart(part) == Join(CapitalizedWords(Split(part, "-")), <<"-">>)

WikiParts(parts) == [k \in 1..Len(parts) |-> WikiPart(parts[k])]

\* return "-".join(wiki_parts) + anchor
JoinWikiParts(wps, anch) == Join(wps, <<"-">>) \o anch

transform_path_to_wiki_page(full) ==
    LET sep == SeparateAnchor(full)
        p2  == StripMd(StripPrefixes(sep.path))
    IN  IF IsReadme(p2) THEN Home \o sep.anchor
        ELSE IF IsChangelog(p2) THEN CHANGELOG \o sep.anchor
        ELSE JoinWikiParts(WikiParts(PathParts(StripDocs(p2))), sep.anchor)

\* ------------------------------------------------------------------------
\* _transform_links_in_text
\* ------------------------------------------------------------------------

\* The length of the "./" or "../" prefix the pattern consumes, 0 when the
\* destination starts with neither.
DestPrefixLen(dest) ==
    IF StartsWith(dest, DotSlash) THEN 2
    ELSE IF StartsWith(dest, DotDotSlash) THEN 3
    ELSE 0

\* dest (the text up to the first closing parenthesis) matches group 2 of
\* the link pattern: "./" or "../", one or more characters, ".md", then
\* either nothing or "#" and the rest.
DestMatches(dest) ==
    LET p == DestPrefixLen(dest)
    IN  /\ p > 0
        /\ \E e \in (p + 4)..Len(dest) :
              /\ Slice(dest, e - 3, e) = DotMd
              /\ (e = Len(dest) \/ At(dest, e) = "#")

\* The link pattern tried at index i: "[", one or more characters other
\* than "]", "]", "(", a destination free of ")" that DestMatches, ")".
\* The record of the match, with end = -1 when there is none.
LinkMatch(t, i) ==
    LET j == Find(t, <<"]">>, i + 1)
        k == IF j = -1 THEN -1 ELSE Find(t, <<")">>, j + 2)
        ok == /\ At(t, i) = "["
              /\ j > i + 1
              /\ OccursAt(t, <<"(">>, j + 1)
              /\ k # -1
              /\ DestMatches(Slice(t, j + 2, k))
    IN  IF ok
        THEN [end |-> k + 1, link_text |-> Slice(t, i + 1, j), path |-> Slice(t, j + 2, k)]
        ELSE [end |-> -1, link_text |-> <<>>, path |-> <<>>]

\* replace_link
ReplaceLink(m) ==
    <<"[">> \o m.link_text \o <<"]", "(">> \o transform_path_to_wiki_page(m.path) \o <<")">>

RECURSIVE SubLinks(_, _)
\* re.sub(pattern, replace_link, text) from index i on
SubLinks(t, i) ==
    LET starts == {k \in i..(Len(t) - 1) : LinkMatch(t, k).end # -1}
    IN  IF starts = {} THEN SliceFrom(t, i)
        ELSE LET k == CHOOSE a \in starts : \A b \in starts : a <= b
                 m == LinkMatch(t, k)
             IN  Slice(t, i, k) \o ReplaceLink(m) \o SubLinks(t, m.end)

_transform_links_in_text(t) == SubLinks(t, 0)

\* ------------------------------------------------------------------------
\* _transform_images_in_text
\* ------------------------------------------------------------------------

ImagesSlash == <<"i","m","a","g","e","s","/">>

HttpPrefix == <<"h","t","t","p",":","/","/">>

HttpsPrefix == <<"h","t","t","p","s",":","/","/">>

SlashSlash == <<"/","/">>

\* The image pattern tried at index i: "!", "[", characters other than "]",
\* "]", "(", one or more characters other than ")", ")".
ImageMatch(t, i) ==
    LET j == Find(t, <<"]">>, i + 2)
        k == IF j = -1 THEN -1 ELSE Find(t, <<")">>, j + 2)
        ok == /\ At(t, i) = "!"
              /\ OccursAt(t, <<"[">>, i + 1)
              /\ j # -1
              /\ OccursAt(t, <<"(">>, j + 1)
              /\ k > j + 2
    IN  IF ok
        THEN [end |-> k + 1, alt_text |-> Slice(t, i + 2, j), full_path |-> Slice(t, j + 2, k),
              all |-> Slice(t, i, k + 1)]
        ELSE [end |-> -1, alt_text |-> <<>>, full_path |-> <<>>, all |-> <<>>]

\* Mutant: external URLs are not skipped
normalize_image_path_no_skip(m) ==
    LET images_idx == Find(StrLower(m.full_path), ImagesSlash, 0)
    IN  IF images_idx # -1
        THEN <<"!", "[">> \o m.alt_text \o <<"]", "(">>
                 \o SliceFrom(m.full_path, images_idx) \o <<")">>
        ELSE m.all

normalize_image_path(m) ==
    LET images_idx == Find(StrLower(m.full_path), ImagesSlash, 0)
    IN  IF \/ StartsWith(m.full_path, HttpPrefix)
           \/ StartsWith(m.full_path, HttpsPrefix)
           \/ StartsWith(m.full_path, SlashSlash)
        THEN m.all
        ELSE IF images_idx # -1
        THEN <<"!", "[">> \o m.alt_text \o <<"]", "(">>
                 \o SliceFrom(m.full_path, images_idx) \o <<")">>
        ELSE m.all

RECURSIVE SubImages(_, _)
\* re.sub(pattern, normalize_image_path, text) from index i on
SubImages(t, i) ==
    LET starts == {k \in i..(Len(t) - 1) : ImageMatch(t, k).end # -1}
    IN  IF starts = {} THEN SliceFrom(t, i)
        ELSE LET k == CHOOSE a \in starts : \A b \in starts : a <= b
                 m == ImageMatch(t, k)
             IN  Slice(t, i, k) \o normalize_image_path(m) \o SubImages(t, m.end)

_transform_images_in_text(t) == SubImages(t, 0)

\* transform_fn is passed by name: "links" or "images"
TransformFns == {"links", "images"}

ApplyFn(fn, t) ==
    IF fn = "links" THEN _transform_links_in_text(t) ELSE _transform_images_in_text(t)

\* ------------------------------------------------------------------------
\* _transform_preserving_code_blocks: the split on fenced code blocks
\* ------------------------------------------------------------------------

Backticks3 == <<BT, BT, BT>>

Tildes3 == <<"~", "~", "~">>

\* Mutant: the pattern with greedy quantifiers, so that a block runs to the
\* last following marker of its style
FenceMatchEndGreedy(t, i) ==
    LET m == IF OccursAt(t, Backticks3, i) THEN Backticks3 ELSE Tildes3
        closers == {k \in (i + 3)..Len(t) : OccursAt(t, m, k)}
    IN  IF (OccursAt(t, Backticks3, i) \/ OccursAt(t, Tildes3, i)) /\ closers # {}
        THEN (CHOOSE k \in closers : \A j \in closers : j <= k) + 3
        ELSE -1

\* Mutant: the pattern without its tilde alternative
FenceMatchEndBackticksOnly(t, i) ==
    LET cb == Find(t, Backticks3, i + 3)
    IN  IF OccursAt(t, Backticks3, i) /\ cb # -1 THEN cb + 3 ELSE -1

\* Mutant: an opening marker with no closing marker matches to the end of
\* the text
FenceMatchEndToEnd(t, i) ==
    LET cb == Find(t, Backticks3, i + 3)
        ct == Find(t, Tildes3, i + 3)
    IN  IF OccursAt(t, Backticks3, i) THEN (IF cb # -1 THEN cb + 3 ELSE Len(t))
        ELSE IF OccursAt(t, Tildes3, i) THEN (IF ct # -1 THEN ct + 3 ELSE Len(t))
        ELSE -1

\* fenced_pattern tried at index i: three backticks, lazily anything, three
\* backticks; or the same with tildes.  The end of the match, or -1.
FenceMatchEnd(t, i) ==
    LET cb == Find(t, Backticks3, i + 3)
        ct == Find(t, Tildes3, i + 3)
    IN  IF OccursAt(t, Backticks3, i) /\ cb # -1 THEN cb + 3
        ELSE IF OccursAt(t, Tildes3, i) /\ ct # -1 THEN ct + 3
        ELSE -1

RECURSIVE SplitFenced(_, _, _)
\* re.split(fenced_pattern, content): the unmatched text since index start,
\* scanning for the next match from index i
SplitFenced(t, start, i) ==
    LET opens == {k \in i..(Len(t) - 1) : FenceMatchEnd(t, k) # -1}
    IN  IF opens = {} THEN <<SliceFrom(t, start)>>
        ELSE LET k == CHOOSE a \in opens : \A b \in opens : a <= b
                 e == FenceMatchEnd(t, k)
             IN  <<Slice(t, start, k), Slice(t, k, e)>> \o SplitFenced(t, e, e)

\* Mutant: the pattern without its capturing group, so that the split
\* drops the fenced blocks
fenced_split_no_capture(content) ==
    LET parts == SplitFenced(content, 0, 0)
    IN  [k \in 1..((Len(parts) + 1) \div 2) |-> parts[2 * k - 1]]

fenced_split(content) == SplitFenced(content, 0, 0)

\* ------------------------------------------------------------------------
\* _transform_with_protected_inline_code: the scan
\* ------------------------------------------------------------------------

Blanks == {" ", "\t"}

placeholder_prefix == <<NUL, "I","N","L","I","N","E","_","C","O","D","E","_">>

\* Mutant: the token without its terminating NUL
TokenNoSentinel(idx) == placeholder_prefix \o DecimalDigits(idx)

\* f"{placeholder_prefix}{idx}\x00"
Token(idx) == placeholder_prefix \o DecimalDigits(idx) \o <<NUL>>

\* The locals of one call, as a record
GuardInit(t) ==
    [text |-> t, pos |-> 0, in_link_text |-> FALSE, bracket_depth |-> 0,
     result |-> <<>>, placeholders |-> <<>>]

RECURSIVE SkipBlanks(_, _)
\* while p < len(text) and text[p] in " \t": p += 1
SkipBlanks(t, p) ==
    IF p < Len(t) /\ At(t, p) \in Blanks THEN SkipBlanks(t, p + 1) ELSE p

\* Mutant: the copy stops after the first ")", nested parentheses or not
ConsumeParensFirstClose(t, p, paren_depth) ==
    LET e == Find(t, <<")">>, p)
    IN  IF e = -1 THEN Len(t) ELSE e + 1

RECURSIVE ConsumeParens(_, _, _)
\* while pos < len(text) and paren_depth > 0: the position after the loop
ConsumeParens(t, p, paren_depth) ==
    IF p < Len(t) /\ paren_depth > 0
    THEN ConsumeParens(t, p + 1,
             IF At(t, p) = "(" THEN paren_depth + 1
             ELSE IF At(t, p) = ")" THEN paren_depth - 1
             ELSE paren_depth)
    ELSE p

\* The position after the link's destination: past the "]" at p, the blanks,
\* and the balanced parentheses when a "(" follows
DestinationEnd(t, p) ==
    LET q == SkipBlanks(t, p + 1)
    IN  IF q < Len(t) /\ At(t, q) = "(" THEN ConsumeParens(t, q + 1, 1) ELSE q

\* text[pos] == "[" and not in_link_text
AtOpenBracket(s) == At(s.text, s.pos) = "[" /\ ~s.in_link_text

\* Mutant: the "[" is copied as a plain character, link text is never entered
StepOpenBracketNoLinkText(s) ==
    [s EXCEPT !.result = Append(s.result, At(s.text, s.pos)),
              !.pos = s.pos + 1]

\* Mutant: the "[" sets the link-text state but is neither copied nor passed
StepOpenBracketNoAdvance(s) ==
    [s EXCEPT !.in_link_text = TRUE,
              !.bracket_depth = 1]

StepOpenBracket(s) ==
    [s EXCEPT !.in_link_text = TRUE,
              !.bracket_depth = 1,
              !.result = Append(s.result, At(s.text, s.pos)),
              !.pos = s.pos + 1]

\* in link text, a "]" brings the depth to 0 and "(" follows the blanks
AtLinkClose(s) ==
    /\ s.in_link_text
    /\ At(s.text, s.pos) = "]"
    /\ s.bracket_depth - 1 = 0
    /\ LET next_pos == SkipBlanks(s.text, s.pos + 1)
       IN  next_pos < Len(s.text) /\ At(s.text, next_pos) = "("

StepLinkClose(s) ==
    LET e == DestinationEnd(s.text, s.pos)
    IN  [s EXCEPT !.bracket_depth = s.bracket_depth - 1,
                  !.result = s.result \o Slice(s.text, s.pos, e),
                  !.pos = e,
                  !.in_link_text = FALSE]

\* in link text, any other character (a "]" that closes no link included)
AtLinkText(s) == s.in_link_text /\ ~AtLinkClose(s)

\* Mutant: a "]" that closes no link leaves the scan in link text
StepLinkTextStaysInLink(s) ==
    LET c == At(s.text, s.pos)
        depth == IF c = "[" THEN s.bracket_depth + 1
                 ELSE IF c = "]" THEN s.bracket_depth - 1
                 ELSE s.bracket_depth
    IN  [s EXCEPT !.bracket_depth = depth,
                  !.result = Append(s.result, c),
                  !.pos = s.pos + 1]

StepLinkText(s) ==
    LET c == At(s.text, s.pos)
        depth == IF c = "[" THEN s.bracket_depth + 1
                 ELSE IF c = "]" THEN s.bracket_depth - 1
                 ELSE s.bracket_depth
    IN  [s EXCEPT !.bracket_depth = depth,
                  !.in_link_text = ~(c = "]" /\ depth = 0),
                  !.result = Append(s.result, c),
                  !.pos = s.pos + 1]

\* outside link text, a double backtick with a closing double backtick
AtDoubleBacktick(s) ==
    /\ ~s.in_link_text
    /\ At(s.text, s.pos) # "["
    /\ Slice(s.text, s.pos, s.pos + 2) = <<BT, BT>>
    /\ Find(s.text, <<BT, BT>>, s.pos + 2) # -1

StepDoubleBacktick(s) ==
    LET end == Find(s.text, <<BT, BT>>, s.pos + 2)
    IN  [s EXCEPT !.placeholders = Append(s.placeholders, Slice(s.text, s.pos, end + 2)),
                  !.result = s.result \o Token(Len(s.placeholders)),
                  !.pos = end + 2]

\* Mutant: a backtick that another backtick follows directly opens no span
AtSingleBacktickNotDoubled(s) ==
    /\ ~s.in_link_text
    /\ ~AtDoubleBacktick(s)
    /\ At(s.text, s.pos) = BT
    /\ Slice(s.text, s.pos + 1, s.pos + 2) # <<BT>>
    /\ Find(s.text, <<BT>>, s.pos + 1) # -1

\* outside link text, a backtick with a closing backtick
AtSingleBacktick(s) ==
    /\ ~s.in_link_text
    /\ ~AtDoubleBacktick(s)
    /\ At(s.text, s.pos) = BT
    /\ Find(s.text, <<BT>>, s.pos + 1) # -1

StepSingleBacktick(s) ==
    LET end == Find(s.text, <<BT>>, s.pos + 1)
    IN  [s EXCEPT !.placeholders = Append(s.placeholders, Slice(s.text, s.pos, end + 1)),
                  !.result = s.result \o Token(Len(s.placeholders)),
                  !.pos = end + 1]

\* outside link text, any other character
AtPlainChar(s) ==
    /\ ~s.in_link_text
    /\ At(s.text, s.pos) # "["
    /\ ~AtDoubleBacktick(s)
    /\ ~AtSingleBacktick(s)

StepPlainChar(s) ==
    [s EXCEPT !.result = Append(s.result, At(s.text, s.pos)),
              !.pos = s.pos + 1]

\* Mutant: the lookahead subscripts text[next_pos] without first comparing
\* next_pos with len(text)
SubscriptsUnboundedLookahead(s) ==
    LET t == s.text
        closes == s.in_link_text /\ At(t, s.pos) = "]" /\ s.bracket_depth - 1 = 0
        next_pos == SkipBlanks(t, s.pos + 1)
        lookahead == IF closes THEN (s.pos + 1)..next_pos ELSE {}
    IN  {s.pos} \cup lookahead

\* The indices i at which one iteration of the main loop evaluates text[i]:
\* the entry position (the loop condition makes it less than len(text)),
\* the lookahead after a "]" that brings the depth to 0 (each subscript
\* behind "next_pos < len(text) and"), and the copy of the blanks and the
\* destination (each subscript behind "pos < len(text) and")
Subscripts(s) ==
    LET t == s.text
        closes == s.in_link_text /\ At(t, s.pos) = "]" /\ s.bracket_depth - 1 = 0
        next_pos == SkipBlanks(t, s.pos + 1)
        lookahead == IF closes THEN {q \in (s.pos + 1)..next_pos : q < Len(t)} ELSE {}
        copied == IF AtLinkClose(s)
                  THEN {q \in (s.pos + 1)..DestinationEnd(t, s.pos) : q < Len(t)}
                  ELSE {}
    IN  {s.pos} \cup lookahead \cup copied

\* One iteration of the main loop
GuardStep(s) ==
    IF AtOpenBracket(s) THEN StepOpenBracket(s)
    ELSE IF AtLinkClose(s) THEN StepLinkClose(s)
    ELSE IF AtLinkText(s) THEN StepLinkText(s)
    ELSE IF AtDoubleBacktick(s) THEN StepDoubleBacktick(s)
    ELSE IF AtSingleBacktick(s) THEN StepSingleBacktick(s)
    ELSE StepPlainChar(s)

RECURSIVE GuardRun(_)
\* while pos < len(text)
GuardRun(s) == IF s.pos < Len(s.text) THEN GuardRun(GuardStep(s)) ELSE s

RECURSIVE Replace(_, _, _, _)
\* str.replace(old, new) from index i on
Replace(t, old, new, i) ==
    LET k == Find(t, old, i)
    IN  IF k = -1 THEN SliceFrom(t, i)
        ELSE Slice(t, i, k) \o new \o Replace(t, old, new, k + Len(old))

\* Mutant: the restore loop starts at the second placeholder
RestorePlaceholdersSkipFirst(transformed, placeholders) ==
    LET F[k \in 0..Len(placeholders)] ==
            IF k <= 1 THEN transformed
            ELSE Replace(F[k - 1], Token(k - 1), placeholders[k], 0)
    IN  F[Len(placeholders)]

\* for idx, code in enumerate(placeholders): transformed.replace(token, code)
RestorePlaceholders(transformed, placeholders) ==
    LET F[k \in 0..Len(placeholders)] ==
            IF k = 0 THEN transformed
            ELSE Replace(F[k - 1], Token(k - 1), placeholders[k], 0)
    IN  F[Len(placeholders)]

\* The tail of the call: transform the protected text, restore the spans
GuardFinish(s, fn) == RestorePlaceholders(ApplyFn(fn, s.result), s.placeholders)

_transform_with_protected_inline_code(t, fn) == GuardFinish(GuardRun(GuardInit(t)), fn)

\* ------------------------------------------------------------------------
\* The public functions
\* ------------------------------------------------------------------------

_transform_preserving_code_blocks(c, fn) ==
    LET parts == fenced_split(c)
    IN  Concat([k \in 1..Len(parts) |->
                   IF (k - 1) % 2 = 1 THEN parts[k]
                   ELSE _transform_with_protected_inline_code(parts[k], fn)])

transform_wiki_links(c) == _transform_preserving_code_blocks(c, "links")

transform_image_paths(c) == _transform_preserving_code_blocks(c, "images")

\* ------------------------------------------------------------------------
\* Inputs
\* ------------------------------------------------------------------------

\* [a](./b.md)
LinkFrag == <<"[", "a", "]", "(", ".", "/", "b", ".", "m", "d", ")">>

\* the same link, rewritten: [a](B)
LinkFragOut == <<"[", "a", "]", "(", "B", ")">>

\* [a](./b.md#   a link whose anchor is still open
AnchorFrag == <<"[", "a", "]", "(", ".", "/", "b", ".", "m", "d", "#">>

\* a link whose display text holds inline code, and the same link rewritten
CodeTextFrag == <<"[", BT, "c", BT, "]", "(", ".", "/", "b", ".", "m", "d", ")">>

CodeTextFragOut == <<"[", BT, "c", BT, "]", "(", "B", ")">>

\* ![i](./images/p)   and the same image, normalized
ImageFrag == <<"!", "[", "i", "]", "(", ".", "/", "i","m","a","g","e","s","/", "p", ")">>

ImageFragOut == <<"!", "[", "i", "]", "(", "i","m","a","g","e","s","/", "p", ")">>

\* an inline-code span that quotes the link
CodeFrag == <<BT>> \o LinkFrag \o <<BT>>

\* the fragments of the documents given to transform_wiki_links
LinkFragments ==
    { <<"[">>, <<"]">>, <<"(">>, <<" ">>, <<BT>>, <<BT, BT>>, Backticks3, Tildes3,
      LinkFrag, AnchorFrag, CodeTextFrag, CodeFrag }

\* the fragments of the documents given to transform_image_paths
ImageFragments ==
    { <<"[">>, <<"]">>, <<"(">>, <<" ">>, <<BT>>, Backticks3, Tildes3, ImageFrag }

Fragments(fn) == IF fn = "links" THEN LinkFragments ELSE ImageFragments

MaxFrags == 3

\* the documents: at most MaxFrags fragments, concatenated
Documents(fn) ==
    UNION { {Concat(f) : f \in [1..n -> Fragments(fn)]} : n \in 0..MaxFrags }

\* ------------------------------------------------------------------------
\* State: one call of transform_wiki_links or transform_image_paths
\* ------------------------------------------------------------------------

VARIABLES content, transform_fn, pc, fenced_parts, i, result_parts, output,
          text, pos, in_link_text, bracket_depth, result, placeholders, raised,
          path_arg, path, anchor, parts, wiki_parts, wiki_page,
          calls, relative_path, wiki_name

call == <<content, transform_fn, fenced_parts, i, result_parts, output>>

frame == <<text, pos, in_link_text, bracket_depth, result, placeholders>>

\* the locals of one call of transform_path_to_wiki_page
namer == <<path_arg, path, anchor, parts, wiki_parts, wiki_page>>

\* the locals of one call of path_to_wiki_name
pages == <<relative_path, wiki_name>>

vars == <<content, transform_fn, pc, fenced_parts, i, result_parts, output,
          text, pos, in_link_text, bracket_depth, result, placeholders, raised,
          path_arg, path, anchor, parts, wiki_parts, wiki_page,
          calls, relative_path, wiki_name>>

Frame ==
    [text |-> text, pos |-> pos, in_link_text |-> in_link_text,
     bracket_depth |-> bracket_depth, result |-> result, placeholders |-> placeholders]

SetFrame(s) ==
    /\ text' = s.text
    /\ pos' = s.pos
    /\ in_link_text' = s.in_link_text
    /\ bracket_depth' = s.bracket_depth
    /\ result' = s.result
    /\ placeholders' = s.placeholders

\* no call of transform_path_to_wiki_page is in progress
NoNamer ==
    /\ path_arg = <<>>
    /\ path = <<>>
    /\ anchor = <<>>
    /\ parts = <<>>
    /\ wiki_parts = <<>>
    /\ wiki_page = <<>>

\* no concurrent calls and no call of path_to_wiki_name are in progress
NoOtherCalls ==
    /\ calls = <<>>
    /\ relative_path = <<>>
    /\ wiki_name = <<>>

\* the state at the call, before the document is chosen
CallEntry ==
    /\ text = <<>>
    /\ pos = 0
    /\ in_link_text = FALSE
    /\ bracket_depth = 0
    /\ result = <<>>
    /\ placeholders = <<>>
    /\ fenced_parts = <<>>
    /\ i = 0
    /\ result_parts = <<>>
    /\ output = <<>>
    /\ raised = FALSE

Init ==
    /\ CallEntry
    /\ NoOtherCalls
    /\ transform_fn \in TransformFns
    /\ content \in Documents(transform_fn)
    /\ pc = "call"
    /\ NoNamer

\* fenced_parts = re.split(fenced_pattern, content)
SplitContent ==
    /\ pc = "call"
    /\ fenced_parts' = fenced_split(content)
    /\ i' = 0
    /\ result_parts' = <<>>
    /\ pc' = "parts"
    /\ UNCHANGED <<content, transform_fn, output, frame, raised, namer, calls, pages>>

\* an odd index: a fenced code block, preserved exactly
PreserveFenced ==
    /\ pc = "parts"
    /\ i < Len(fenced_parts)
    /\ i % 2 = 1
    /\ result_parts' = Append(result_parts, fenced_parts[i + 1])
    /\ i' = i + 1
    /\ UNCHANGED <<content, transform_fn, pc, fenced_parts, output, frame, raised, namer, calls, pages>>

\* an even index: the call of _transform_with_protected_inline_code begins
EnterGuard ==
    /\ pc = "parts"
    /\ i < Len(fenced_parts)
    /\ i % 2 = 0
    /\ SetFrame(GuardInit(fenced_parts[i + 1]))
    /\ pc' = "scan"
    /\ UNCHANGED <<call, raised, namer, calls, pages>>

\* One iteration of the main loop, in the branch that at holds in
Scan(at, step) ==
    /\ pc = "scan"
    /\ pos < Len(text)
    /\ at
    /\ SetFrame(step)
    /\ raised' = (raised \/ \E q \in Subscripts(Frame) : Raises(text, q))
    /\ UNCHANGED <<call, pc, namer, calls, pages>>

OpenBracket == Scan(AtOpenBracket(Frame), StepOpenBracket(Frame))

LinkClose == Scan(AtLinkClose(Frame), StepLinkClose(Frame))

LinkText == Scan(AtLinkText(Frame), StepLinkText(Frame))

DoubleBacktick == Scan(AtDoubleBacktick(Frame), StepDoubleBacktick(Frame))

SingleBacktick == Scan(AtSingleBacktick(Frame), StepSingleBacktick(Frame))

PlainChar == Scan(AtPlainChar(Frame), StepPlainChar(Frame))

\* the loop is over: transform the protected text, restore, return
LeaveGuard ==
    /\ pc = "scan"
    /\ pos >= Len(text)
    /\ result_parts' = Append(result_parts, GuardFinish(Frame, transform_fn))
    /\ i' = i + 1
    /\ pc' = "parts"
    /\ UNCHANGED <<content, transform_fn, fenced_parts, output, frame, raised, namer, calls, pages>>

\* return "".join(result_parts)
JoinParts ==
    /\ pc = "parts"
    /\ i >= Len(fenced_parts)
    /\ output' = Concat(result_parts)
    /\ pc' = "done"
    /\ UNCHANGED <<content, transform_fn, fenced_parts, i, result_parts, frame, raised, namer, calls, pages>>

Next ==
    \/ SplitContent
    \/ PreserveFenced
    \/ EnterGuard
    \/ OpenBracket
    \/ LinkClose
    \/ LinkText
    \/ DoubleBacktick
    \/ SingleBacktick
    \/ PlainChar
    \/ LeaveGuard
    \/ JoinParts

Spec == Init /\ [][Next]_vars

\* The run agrees with the functions composed directly
RunMatchesFunction ==
    pc = "done" => output = _transform_preserving_code_blocks(content, transform_fn)

\* ------------------------------------------------------------------------
\* Documents that hold one link or one image reference
\* ------------------------------------------------------------------------

\* [a](   the opening of a link, up to its destination
LinkOpening == <<"[", "a", "]", "(">>

\* ![i](   the opening of an image reference, up to its path
ImageOpening == <<"!", "[", "i", "]", "(">>

Opening(fn) == IF fn = "links" THEN LinkOpening ELSE ImageOpening

\* the fragments of a link destination
LinkDestFragments ==
    { DotSlash, DotDotSlash, HttpPrefix, HttpsPrefix, <<"#">>,
      <<"b", ".", "m", "d">>, <<"b", ".", "t", "x", "t">>, <<"#", "c", ".", "m", "d">> }

\* the fragments of an image path
ImagePathFragments ==
    { DotSlash, HttpPrefix, HttpsPrefix, SlashSlash, ImagesSlash,
      <<"I","m","a","g","e","s","/">>, <<"p">>, <<IDOT>> }

DestFragments(fn) == IF fn = "links" THEN LinkDestFragments ELSE ImagePathFragments

MaxDestFrags == 3

\* the destinations: at most MaxDestFrags fragments, concatenated
Destinations(fn) ==
    UNION { {Concat(f) : f \in [1..n -> DestFragments(fn)]} : n \in 0..MaxDestFrags }

\* a fenced block, a double-backtick span, a single-backtick span, a blank
CodeLead ==
    Tildes3 \o <<"c">> \o Tildes3 \o <<BT, BT, "c", BT, BT, " ", BT, "c", BT, " ">>

\* what precedes the reference: nothing, or code
Leads == { <<>>, CodeLead }

\* the documents: a lead, then one link or image reference
References(fn) ==
    { lead \o Opening(fn) \o dest \o <<")">> : lead \in Leads, dest \in Destinations(fn) }

RefInit ==
    /\ CallEntry
    /\ NoOtherCalls
    /\ transform_fn \in TransformFns
    /\ content \in References(transform_fn)
    /\ pc = "call"
    /\ NoNamer

RefSpec == RefInit /\ [][Next]_vars

\* ------------------------------------------------------------------------
\* Documents for the inline-code scan: brackets, destinations, backticks
\* ------------------------------------------------------------------------

\* a literal placeholder token, written in the document itself
TokenFrag == Token(0)

\* a parenthesized group that holds a backtick
ParenFrag == <<"(", BT, ")">>

\* what the document starts with: nothing, a bracket pair that is no link,
\* or a link whose destination has just been opened
ScanLeads ==
    { <<>>,
      <<"[", "a", "]", " ">>,
      <<"[", "a", "]", "(">>,
      <<"[", "a", "]", " ", "\t", "(">> }

\* the fragments that follow the lead
ScanFragments ==
    { <<")">>, <<BT>>, <<BT, BT>>, ParenFrag, LinkFrag, CodeFrag, TokenFrag, Tildes3 }

MaxScanFrags == 3

\* the documents: a lead, then at most MaxScanFrags fragments
ScanDocuments ==
    UNION { {lead \o Concat(f) : lead \in ScanLeads, f \in [1..n -> ScanFragments]} :
            n \in 0..MaxScanFrags }

ScanInit ==
    /\ CallEntry
    /\ NoOtherCalls
    /\ transform_fn = "links"
    /\ content \in ScanDocuments
    /\ pc = "call"
    /\ NoNamer

ScanSpec == ScanInit /\ [][Next]_vars

\* ------------------------------------------------------------------------
\* Documents with several fenced blocks
\* ------------------------------------------------------------------------

\* a tilde block that holds a backtick marker
MixedBlock == Tildes3 \o Backticks3 \o Tildes3

\* the fragments of the documents with fences
FenceFragments == { Backticks3, Tildes3, <<BT>>, LinkFrag, MixedBlock }

MaxFenceFrags == 4

\* the documents: at most MaxFenceFrags fragments, concatenated
FenceDocuments ==
    UNION { {Concat(f) : f \in [1..n -> FenceFragments]} : n \in 0..MaxFenceFrags }

FenceInit ==
    /\ CallEntry
    /\ NoOtherCalls
    /\ transform_fn = "links"
    /\ content \in FenceDocuments
    /\ pc = "call"
    /\ NoNamer

FenceSpec == FenceInit /\ [][Next]_vars

\* ------------------------------------------------------------------------
\* Documents with many inline-code spans
\* ------------------------------------------------------------------------

\* the inline-code span number k of a document, with its number as code
SpanOf(style, k) ==
    LET n == IF style = "double" \/ (style = "mixed" /\ k % 2 = 1) THEN 2 ELSE 1
        delimiter == [j \in 1..n |-> BT]
    IN  delimiter \o DecimalDigits(k) \o delimiter \o <<" ">>

SpanStyles == {"single", "double", "mixed"}

\* what precedes the spans: nothing, or a fenced block, brackets that are
\* no link, and a link
SpanLeads ==
    { <<>>, Tildes3 \o <<"c">> \o Tildes3 \o <<"[", "a", "]", " ">> \o LinkFrag \o <<" ">> }

MaxSpans == 11

\* the documents: a lead, then at most MaxSpans spans numbered from 0
SpanDocuments ==
    { lead \o Concat([k \in 1..n |-> SpanOf(style, k - 1)]) :
        lead \in SpanLeads, style \in SpanStyles, n \in 0..MaxSpans }

SpanInit ==
    /\ CallEntry
    /\ NoOtherCalls
    /\ transform_fn = "links"
    /\ content \in SpanDocuments
    /\ pc = "call"
    /\ NoNamer

SpanSpec == SpanInit /\ [][Next]_vars

\* ------------------------------------------------------------------------
\* Documents for a second normalization: an image reference, text after it
\* ------------------------------------------------------------------------

\* (images/)   a parenthesized path, which opens a nested parenthesis in
\* the destination of the reference
NestedPath == <<"(">> \o ImagesSlash \o <<")">>

\* x/images/p)   a path and the end of the reference
PlainPath == <<"x", "/">> \o ImagesSlash \o <<"p", ")">>

\* an inline-code span that quotes an image reference
CodeImageFrag == <<BT>> \o ImageFrag \o <<BT>>

\* the fragments that follow the opening of the reference
RepeatFragments == { NestedPath, PlainPath, <<BT, ")">>, <<BT, BT>>, CodeImageFrag }

MaxRepeatFrags == 3

\* the documents: the opening of an image reference, then at most
\* MaxRepeatFrags fragments
RepeatDocuments ==
    UNION { {ImageOpening \o Concat(f) : f \in [1..n -> RepeatFragments]} :
            n \in 0..MaxRepeatFrags }

RepeatInit ==
    /\ CallEntry
    /\ NoOtherCalls
    /\ transform_fn = "images"
    /\ content \in RepeatDocuments
    /\ pc = "call"
    /\ NoNamer

RepeatSpec == RepeatInit /\ [][Next]_vars

\* ------------------------------------------------------------------------
\* State: one call of transform_path_to_wiki_page
\* ------------------------------------------------------------------------

\* the fragments of the paths given to transform_path_to_wiki_page
PathFragments ==
    { DotSlash, DotDotSlash, DotMd, <<"#">>, <<"-">>, <<"x", "/">>,
      <<"R","e","a","d","M","e">>, <<"c","h","a","n","g","e","L","o","g">>,
      <<"D","o","c","s","/">>, <<"a","B","-","c">>, <<"#","A","/","b",".","#","-">> }

MaxPathFrags == 3

\* the paths: at most MaxPathFrags fragments, concatenated
Paths == UNION { {Concat(f) : f \in [1..n -> PathFragments]} : n \in 0..MaxPathFrags }

\* the document variables while only transform_path_to_wiki_page runs
document == <<content, transform_fn, fenced_parts, i, result_parts, output, frame, raised>>

NamerInit ==
    /\ CallEntry
    /\ NoOtherCalls
    /\ transform_fn = "links"
    /\ content = <<>>
    /\ path_arg \in Paths
    /\ path = path_arg
    /\ anchor = <<>>
    /\ parts = <<>>
    /\ wiki_parts = <<>>
    /\ wiki_page = <<>>
    /\ pc = "name"

\* the anchor is separated at the first "#"
SplitAnchor ==
    /\ pc = "name"
    /\ path' = SeparateAnchor(path).path
    /\ anchor' = SeparateAnchor(path).anchor
    /\ pc' = "strip"
    /\ UNCHANGED <<path_arg, parts, wiki_parts, wiki_page, document, calls, pages>>

\* one iteration of the while loop
StripPrefix ==
    /\ pc = "strip"
    /\ HasPrefix(path)
    /\ path' = StripOne(path)
    /\ UNCHANGED <<pc, path_arg, anchor, parts, wiki_parts, wiki_page, document, calls, pages>>

\* the while loop is over; the .md suffix is stripped
StripSuffix ==
    /\ pc = "strip"
    /\ ~HasPrefix(path)
    /\ path' = StripMd(path)
    /\ pc' = "special"
    /\ UNCHANGED <<path_arg, anchor, parts, wiki_parts, wiki_page, document, calls, pages>>

\* return "Home" + anchor
ReturnHome ==
    /\ pc = "special"
    /\ IsReadme(path)
    /\ wiki_page' = Home \o anchor
    /\ pc' = "named"
    /\ UNCHANGED <<path_arg, path, anchor, parts, wiki_parts, document, calls, pages>>

\* return "CHANGELOG" + anchor
ReturnChangelog ==
    /\ pc = "special"
    /\ ~IsReadme(path)
    /\ IsChangelog(path)
    /\ wiki_page' = CHANGELOG \o anchor
    /\ pc' = "named"
    /\ UNCHANGED <<path_arg, path, anchor, parts, wiki_parts, document, calls, pages>>

\* no special case: the docs/ prefix is removed and the path is split
SplitParts ==
    /\ pc = "special"
    /\ ~IsReadme(path)
    /\ ~IsChangelog(path)
    /\ path' = StripDocs(path)
    /\ parts' = PathParts(StripDocs(path))
    /\ wiki_parts' = <<>>
    /\ pc' = "words"
    /\ UNCHANGED <<path_arg, anchor, wiki_page, document, calls, pages>>

\* one iteration of the loop over parts
AppendWikiPart ==
    /\ pc = "words"
    /\ Len(wiki_parts) < Len(parts)
    /\ wiki_parts' = Append(wiki_parts, WikiPart(parts[Len(wiki_parts) + 1]))
    /\ UNCHANGED <<pc, path_arg, path, anchor, parts, wiki_page, document, calls, pages>>

\* return "-".join(wiki_parts) + anchor
ReturnWikiPage ==
    /\ pc = "words"
    /\ Len(wiki_parts) = Len(parts)
    /\ wiki_page' = JoinWikiParts(wiki_parts, anchor)
    /\ pc' = "named"
    /\ UNCHANGED <<path_arg, path, anchor, parts, wiki_parts, document, calls, pages>>

NamerNext ==
    \/ SplitAnchor
    \/ StripPrefix
    \/ StripSuffix
    \/ ReturnHome
    \/ ReturnChangelog
    \/ SplitParts
    \/ AppendWikiPart
    \/ ReturnWikiPage

NamerSpec == NamerInit /\ [][NamerNext]_vars

\* The run agrees with the function composed directly
NamerRunMatchesFunction ==
    pc = "named" => wiki_page = transform_path_to_wiki_page(path_arg)

\* ------------------------------------------------------------------------
\* State: two calls made concurrently, each with its own locals
\* ------------------------------------------------------------------------

\* a fenced block that holds a link
FencedFrag == Tildes3 \o LinkFrag \o Tildes3

\* the fragments of the documents given to the two calls
PairFragments == { CodeFrag, LinkFrag, FencedFrag }

MaxPairFrags == 2

\* the documents: at most MaxPairFrags fragments, concatenated
PairDocuments ==
    UNION { {Concat(f) : f \in [1..n -> PairFragments]} : n \in 0..MaxPairFrags }

\* the threads that call
Callers == 1..2

\* the locals of a call at its entry: the arguments, and nothing else yet
CallLocals(c, fn) ==
    [content |-> c, transform_fn |-> fn, pc |-> "call", fenced_parts |-> <<>>,
     i |-> 0, result_parts |-> <<>>, output |-> <<>>, frame |-> GuardInit(<<>>)]

\* Mutant: the locals of the guard are module-level names, one set for
\* every call
LocalsShared(cs, c) == [cs[c] EXCEPT !.frame = cs[1].frame]

\* the locals a call reads and writes are those of its own activation
LocalsOf(cs, c) == cs[c]

\* the variables of the single-call specifications
single == <<content, transform_fn, pc, fenced_parts, i, result_parts, output,
            frame, raised, namer, pages>>

PairInit ==
    /\ CallEntry
    /\ NoNamer
    /\ content = <<>>
    /\ transform_fn = "links"
    /\ pc = "calls"
    /\ relative_path = <<>>
    /\ wiki_name = <<>>
    /\ calls \in [Callers -> {CallLocals(c, fn) : c \in PairDocuments, fn \in TransformFns}]
    /\ calls[1].transform_fn = "links"

\* the step of caller c leaves the locals s behind
Returns(c, s) ==
    /\ calls' = [calls EXCEPT ![c] = s]
    /\ UNCHANGED single

\* fenced_parts = re.split(fenced_pattern, content)
PairSplitContent(c) ==
    LET s == LocalsOf(calls, c)
    IN  /\ s.pc = "call"
        /\ Returns(c, [s EXCEPT !.fenced_parts = fenced_split(s.content),
                                !.i = 0,
                                !.result_parts = <<>>,
                                !.pc = "parts"])

\* an odd index: a fenced code block, preserved exactly
PairPreserveFenced(c) ==
    LET s == LocalsOf(calls, c)
    IN  /\ s.pc = "parts"
        /\ s.i < Len(s.fenced_parts)
        /\ s.i % 2 = 1
        /\ Returns(c, [s EXCEPT !.result_parts = Append(s.result_parts, s.fenced_parts[s.i + 1]),
                                !.i = s.i + 1])

\* an even index: the call of _transform_with_protected_inline_code begins
PairEnterGuard(c) ==
    LET s == LocalsOf(calls, c)
    IN  /\ s.pc = "parts"
        /\ s.i < Len(s.fenced_parts)
        /\ s.i % 2 = 0
        /\ Returns(c, [s EXCEPT !.frame = GuardInit(s.fenced_parts[s.i + 1]),
                                !.pc = "scan"])

\* one iteration of the main loop
PairScan(c) ==
    LET s == LocalsOf(calls, c)
    IN  /\ s.pc = "scan"
        /\ s.frame.pos < Len(s.frame.text)
        /\ Returns(c, [s EXCEPT !.frame = GuardStep(s.frame)])

\* the loop is over: transform the protected text, restore, return
PairLeaveGuard(c) ==
    LET s == LocalsOf(calls, c)
    IN  /\ s.pc = "scan"
        /\ s.frame.pos >= Len(s.frame.text)
        /\ Returns(c, [s EXCEPT !.result_parts =
                                    Append(s.result_parts, GuardFinish(s.frame, s.transform_fn)),
                                !.i = s.i + 1,
                                !.pc = "parts"])

\* return "".join(result_parts)
PairJoinParts(c) ==
    LET s == LocalsOf(calls, c)
    IN  /\ s.pc = "parts"
        /\ s.i >= Len(s.fenced_parts)
        /\ Returns(c, [s EXCEPT !.output = Concat(s.result_parts),
                                !.pc = "done"])

\* any caller takes its next step
PairNext ==
    \E c \in Callers :
        \/ PairSplitContent(c)
        \/ PairPreserveFenced(c)
        \/ PairEnterGuard(c)
        \/ PairScan(c)
        \/ PairLeaveGuard(c)
        \/ PairJoinParts(c)

PairSpec == PairInit /\ [][PairNext]_vars

\* ------------------------------------------------------------------------
\* prepare_wiki: the name of the page file, and the link that points to it
\* ------------------------------------------------------------------------

\* relative_path.rsplit(".", 1)[0]: what precedes the last "."
RSplitHead(s) ==
    LET dots == {k \in 0..(Len(s) - 1) : At(s, k) = "."}
    IN  IF dots = {} THEN s
        ELSE Slice(s, 0, CHOOSE k \in dots : \A j \in dots : j <= k)

\* name.replace("/", "-")
SlashesToHyphens(s) == [k \in 1..Len(s) |-> IF s[k] = "/" THEN "-" ELSE s[k]]

\* part[0].upper() + part[1:] if part else part
UpperFirst(part) ==
    IF part = <<>> THEN part ELSE <<ToUpper(Head(part))>> \o Tail(part)

path_to_wiki_name(p) ==
    LET name == IF EndsWith(p, DotMd) THEN RSplitHead(p) ELSE p
        segments == Split(SlashesToHyphens(name), "-")
        capitalized == [k \in 1..Len(segments) |-> UpperFirst(segments[k])]
    IN  Join(capitalized, <<"-">>) \o DotMd

\* the fragments of the paths of the files under docs/
PageFragments == { <<"x">>, <<"a", "B">>, <<"-">>, <<"x", "/">> }

MaxPageFrags == 3

\* the paths relative to docs/: one to MaxPageFrags fragments that end in a
\* file name, then .md
RelativePaths ==
    UNION { {Concat(f) \o DotMd : f \in {g \in [1..n -> PageFragments] : g[n] # <<"x", "/">>}} :
            n \in 1..MaxPageFrags }

\* the link that points to the file relative_path of docs/
LinkToPage(p) == DotSlash \o DocsSlash \o p

PageInit ==
    /\ CallEntry
    /\ NoNamer
    /\ calls = <<>>
    /\ transform_fn = "links"
    /\ content = <<>>
    /\ relative_path \in RelativePaths
    /\ wiki_name = <<>>
    /\ pc = "file"

\* wiki_name = path_to_wiki_name(str(relative_path)); a link to the file is
\* then given to transform_path_to_wiki_page
PathToWikiName ==
    /\ pc = "file"
    /\ wiki_name' = path_to_wiki_name(relative_path)
    /\ path_arg' = LinkToPage(relative_path)
    /\ path' = LinkToPage(relative_path)
    /\ pc' = "name"
    /\ UNCHANGED <<relative_path, anchor, parts, wiki_parts, wiki_page, document, calls>>

\* the steps of transform_path_to_wiki_page that a link into docs/ takes
PageNext ==
    \/ PathToWikiName
    \/ SplitAnchor
    \/ StripPrefix
    \/ StripSuffix
    \/ SplitParts
    \/ AppendWikiPart
    \/ ReturnWikiPage

PageSpec == PageInit /\ [][PageNext]_vars

\* ------------------------------------------------------------------------
\* Vocabulary of the properties
\* ------------------------------------------------------------------------

\* no character of s is in the set cs
NoneOf(s, cs) == \A k \in 1..Len(s) : s[k] \notin cs

\* the fence marker that starts at index a, or the empty string
MarkerAt(c, a) ==
    IF OccursAt(c, Backticks3, a) THEN Backticks3
    ELSE IF OccursAt(c, Tildes3, a) THEN Tildes3
    ELSE <<>>

\* the index of the nearest marker of the same style after the one at a
CloserOf(c, a) == Find(c, MarkerAt(c, a), a + 3)

RECURSIVE FencedBlocksFrom(_, _)
\* The fenced code blocks of a document read from index a on, as pairs
\* <<start, end>>: each runs from an opening marker through the nearest
\* following marker of the same style
FencedBlocksFrom(c, a) ==
    IF a >= Len(c) THEN {}
    ELSE IF MarkerAt(c, a) # <<>> /\ CloserOf(c, a) # -1
    THEN {<<a, CloserOf(c, a) + 3>>} \cup FencedBlocksFrom(c, CloserOf(c, a) + 3)
    ELSE FencedBlocksFrom(c, a + 1)

FencedBlocks(c) == FencedBlocksFrom(c, 0)

\* the document is fenced blocks and nothing else
SolelyFenced(c) ==
    /\ c # <<>>
    /\ \A k \in 0..(Len(c) - 1) : \E b \in FencedBlocks(c) : b[1] <= k /\ k < b[2]

\* c[a:e] is a closed inline-code span, single- or double-backtick, whose
\* delimiters are the only backticks of the document, and the document has
\* no tilde: the span lies outside fenced blocks
IsolatedSpan(c, a, e) ==
    LET n == IF OccursAt(c, <<BT, BT>>, a) THEN 2 ELSE 1
    IN  /\ 0 <= a /\ a + 2 * n < e /\ e <= Len(c)
        /\ NoneOf(Slice(c, 0, a), {BT, "~"})
        /\ NoneOf(SliceFrom(c, e), {BT, "~"})
        /\ NoneOf(Slice(c, a + n, e - n), {BT, "~"})
        /\ \A k \in (a..(a + n - 1)) \cup ((e - n)..(e - 1)) : At(c, k) = BT

\* the index of the first backtick, and the index after the last one
FirstBacktick(c) == Find(c, <<BT>>, 0)

AfterLastBacktick(c) ==
    LET hits == {k \in 1..Len(c) : c[k] = BT}
    IN  IF hits = {} THEN -1 ELSE CHOOSE k \in hits : \A j \in hits : j <= k

\* the document has an isolated span: it is c[FirstBacktick:AfterLastBacktick]
HasIsolatedSpan(c) ==
    FirstBacktick(c) # -1 /\ IsolatedSpan(c, FirstBacktick(c), AfterLastBacktick(c))

TheSpan(c) == Slice(c, FirstBacktick(c), AfterLastBacktick(c))

\* ------------------------------------------------------------------------
\* Properties
\* ------------------------------------------------------------------------

\* C1: link rewriting is idempotent: a second pass of transform_wiki_links
\* over the output of the first changes nothing.
C1_Idempotent ==
    (pc = "done" /\ transform_fn = "links") => transform_wiki_links(output) = output

\* C2: every fenced code block of the document appears byte-identical in
\* the output of either rewriter, at the place the rewritten text before it
\* puts it; a document that is solely fenced blocks is returned unchanged.
C2_FenceOpacity ==
    pc = "done" =>
        /\ \A b \in FencedBlocks(content) :
              LET before == _transform_preserving_code_blocks(Slice(content, 0, b[1]), transform_fn)
              IN  Slice(output, Len(before), Len(before) + (b[2] - b[1]))
                      = Slice(content, b[1], b[2])
        /\ SolelyFenced(content) => output = content

\* C2 witness: a finished call on a document with a fenced block that holds
\* syntax the rewriter would change outside a fence
C2_Witness ==
    /\ pc = "done"
    /\ \E b \in FencedBlocks(content) :
          LET block == Slice(content, b[1], b[2])
          IN  ApplyFn(transform_fn, block) # block

\* C3: a closed inline-code span outside fenced blocks that is not part of
\* a link's display text is byte-identical in the output of either rewriter.
\* Stated for a span that is the only code of the document, with no "]"
\* after it (so no display text can enclose it) and no "(" before it (so no
\* destination can enclose it).
C3_InlineCodeProtected ==
    ( /\ pc = "done"
      /\ HasIsolatedSpan(content)
      /\ NoneOf(SliceFrom(content, AfterLastBacktick(content)), {"]"})
      /\ NoneOf(Slice(content, 0, FirstBacktick(content)), {"("}) )
    => Contains(output, TheSpan(content))

\* C4: a link whose display text holds backtick-quoted code and whose
\* destination is a relative .md path, reached outside code and outside any
\* earlier bracket: the scan copies it through with no placeholder, and the
\* link rewriter replaces the destination and keeps the display text.
C4_CodeInLinkTextRewritten ==
    /\ ( /\ pc = "scan"
         /\ i = 0
         /\ OccursAt(content, CodeTextFrag, pos - Len(CodeTextFrag))
         /\ NoneOf(Slice(content, 0, pos - Len(CodeTextFrag)), {BT, "~", "["}) )
       => (result = Slice(content, 0, pos) /\ placeholders = <<>>)
    /\ (pc = "done" /\ transform_fn = "links")
       => \A k \in 0..Len(content) :
             ( /\ OccursAt(content, CodeTextFrag, k)
               /\ NoneOf(Slice(content, 0, k), {BT, "~", "["}) )
             => StartsWith(output, Slice(content, 0, k) \o CodeTextFragOut)

\* C4 witness: the link rewriter has finished on such a document
C4_Witness ==
    /\ pc = "done"
    /\ transform_fn = "links"
    /\ \E k \in 1..Len(content) :
          /\ OccursAt(content, CodeTextFrag, k)
          /\ NoneOf(Slice(content, 0, k), {BT, "~", "["})
          /\ Len(content) > k + Len(CodeTextFrag)

\* a part is one fenced block: a marker, then the nearest marker of its style
IsFencedBlock(part) == FencedBlocks(part) = {<<0, Len(part)>>}

\* C5: the parts the split returns, alternately transformable and fenced,
\* concatenate in order to exactly the document.
C5_LosslessSplit ==
    (pc = "parts" /\ i = 0) =>
        /\ Concat(fenced_parts) = content
        /\ Len(fenced_parts) % 2 = 1
        /\ \A k \in 1..Len(fenced_parts) :
              IF (k - 1) % 2 = 1 THEN IsFencedBlock(fenced_parts[k])
              ELSE FencedBlocks(fenced_parts[k]) = {}

\* C5 witness: a split with text before, a fenced block, and text after
C5_Witness ==
    /\ pc = "parts"
    /\ Len(fenced_parts) = 3
    /\ fenced_parts[1] # <<>>
    /\ fenced_parts[3] # <<>>

\* the document has a bracketed link whose destination starts with ./ or
\* ../: a "[", later "](" followed by "./" or "../", later a ")"
HasRelativeLink(c) ==
    \E a \in 0..Len(c) : \E j \in (a + 1)..Len(c) : \E k \in (j + 1)..Len(c) :
        /\ OccursAt(c, <<"[">>, a)
        /\ \/ OccursAt(c, <<"]", "(">> \o DotSlash, j)
           \/ OccursAt(c, <<"]", "(">> \o DotDotSlash, j)
        /\ OccursAt(c, <<")">>, k)

\* C6: a document with no \x00 and no bracketed link to a ./ or ../
\* destination is returned by transform_wiki_links byte for byte.
C6_NoLinkNoChange ==
    ( /\ pc = "done"
      /\ transform_fn = "links"
      /\ NoneOf(content, {NUL})
      /\ ~HasRelativeLink(content) )
    => output = content

\* C6 witness: such a document, with brackets and an inline-code span that
\* was protected and restored
C6_Witness ==
    /\ pc = "done"
    /\ transform_fn = "links"
    /\ NoneOf(content, {NUL})
    /\ ~HasRelativeLink(content)
    /\ Contains(content, <<"[">>)
    /\ Contains(content, <<"]">>)
    /\ placeholders # <<>>
    /\ output = content

\* the characters of the documents and of the page names
Characters ==
    {LowerLetters[k] : k \in 1..26} \cup {UpperLetters[k] : k \in 1..26}
        \cup {Digits[k] : k \in 1..10}
        \cup {NUL, BT, IDOT, DOTABOVE, "~", "[", "]", "(", ")", " ", "\t", "!", "#", ".", "/", "-", "_", ":"}

\* C7: the scan never subscripts the text out of bounds, its position never
\* passes the end of the text, and the call returns a string.
C7_NeverRaises ==
    /\ ~raised
    /\ pos \in 0..Len(text)
    /\ (pc = "scan" /\ pos < Len(text)) =>
           \A q \in Subscripts(Frame) : ~Raises(text, q)
    /\ pc = "done" => \A k \in 1..Len(output) : output[k] \in Characters

\* C7 witness: a finished call on a text with an unmatched backtick whose
\* last character is a "]" that brings the bracket depth to 0
C7_Witness ==
    /\ pc = "done"
    /\ ~raised
    /\ Len(content) >= 3
    /\ At(content, 0) = "["
    /\ At(content, Len(content) - 1) = "]"
    /\ Contains(content, <<BT>>)
    /\ NoneOf(Slice(content, 1, Len(content) - 1), {"[", "]"})

\* C8: after an unmatched "[" (no "]" follows it anywhere), a closed
\* inline-code span is still protected: it is byte-identical in the output.
C8_UnmatchedBracketKeepsProtection ==
    ( /\ pc = "done"
      /\ HasIsolatedSpan(content)
      /\ \E b \in 0..(FirstBacktick(content) - 1) :
            /\ At(content, b) = "["
            /\ NoneOf(Slice(content, b, FirstBacktick(content)), {"]"})
      /\ NoneOf(SliceFrom(content, AfterLastBacktick(content)), {"]"}) )
    => Contains(output, TheSpan(content))

\* an opening fence marker at index a that no marker of its style follows
UnclosedMarkerAt(c, a) == MarkerAt(c, a) # <<>> /\ CloserOf(c, a) = -1

\* A document with an unclosed marker at a and the link LinkFrag at b after
\* it, where the text before the marker and between marker and link has no
\* bracket, backtick or tilde, and the document has no closed fence
LinkAfterUnclosedMarker(c, a, b) ==
    /\ UnclosedMarkerAt(c, a)
    /\ a + 3 <= b
    /\ OccursAt(c, LinkFrag, b)
    /\ NoneOf(Slice(c, 0, a), {BT, "~", "["})
    /\ NoneOf(Slice(c, a + 3, b), {BT, "~", "["})
    /\ FencedBlocks(c) = {}

\* the output has the rewritten link in place of the link at b
LinkRewrittenAt(c, b) == StartsWith(output, Slice(c, 0, b) \o LinkFragOut)

\* C9 as claimed: with an unclosed marker nothing is opaque, and a relative
\* .md link that follows the marker is rewritten.
C9_UnclosedFenceLinkRewritten ==
    (pc = "done" \/ (pc = "parts" /\ i = 0)) =>
        \A a \in {m \in 0..Len(content) : UnclosedMarkerAt(content, m)} :
        \A b \in a..Len(content) :
            LinkAfterUnclosedMarker(content, a, b) =>
                /\ fenced_parts = <<content>>
                /\ (pc = "done" /\ transform_fn = "links") => LinkRewrittenAt(content, b)

\* C9 as amended: with an unclosed marker nothing is opaque and the whole
\* document is one span for the inline-code scan; the link that follows a
\* ~~~ marker is rewritten, and the link that follows a ``` marker is
\* rewritten when no backtick occurs after the marker.
C9_UnclosedFenceLinkRewrittenUnlessPaired ==
    (pc = "done" \/ (pc = "parts" /\ i = 0) \/ (pc = "scan" /\ pos = 0)) =>
        \A a \in {m \in 0..Len(content) : UnclosedMarkerAt(content, m)} :
        \A b \in a..Len(content) :
            LinkAfterUnclosedMarker(content, a, b) =>
                /\ fenced_parts = <<content>>
                /\ pc = "scan" => text = content
                /\ ( /\ pc = "done"
                     /\ transform_fn = "links"
                     /\ \/ MarkerAt(content, a) = Tildes3
                        \/ NoneOf(SliceFrom(content, a + 3), {BT}) )
                   => LinkRewrittenAt(content, b)

\* C9 witness: the link after an unclosed ``` marker has been rewritten
C9_Witness ==
    /\ pc = "done"
    /\ transform_fn = "links"
    /\ \E a \in 0..Len(content) : \E b \in a..Len(content) :
          /\ LinkAfterUnclosedMarker(content, a, b)
          /\ MarkerAt(content, a) = Backticks3
          /\ NoneOf(SliceFrom(content, a + 3), {BT})
          /\ LinkRewrittenAt(content, b)
          /\ output # content

\* C10: every iteration of the main loop strictly increases the scan
\* position and leaves it within the text; the lookahead over blanks and
\* the destination loop stop at the end of the text at the latest.
C10_ScanAdvances ==
    [][ (pc = "scan" /\ pc' = "scan") =>
            /\ pos' > pos
            /\ pos' <= Len(text)
            /\ SkipBlanks(text, pos + 1) <= Len(text)
            /\ DestinationEnd(text, pos) <= Len(text) ]_vars

\* C10 witness: the scan has reached the end of a text in which it met a
\* protected span, a link with its destination, and a blank after a "]"
C10_Witness ==
    /\ pc = "scan"
    /\ pos = Len(text)
    /\ placeholders # <<>>
    /\ Contains(text, LinkFrag)
    /\ Contains(text, <<"]", " ">>)

\* ------------------------------------------------------------------------
\* Properties of the link pattern
\* ------------------------------------------------------------------------

\* the destination (or image path) of the reference that ends the document
TheDestination(c) == Slice(c, Find(c, <<"]", "(">>, 0) + 2, Len(c) - 1)

\* the part of a destination before its first "#"
FilePath(dest) ==
    IF \E k \in 1..Len(dest) : dest[k] = "#"
    THEN SubSeq(dest, 1, (CHOOSE k \in 1..Len(dest) :
                            dest[k] = "#" /\ \A q \in 1..(k - 1) : dest[q] # "#") - 1)
    ELSE dest

\* starts with ./ or ../ and the file path ends with .md
RelativeMd(dest) ==
    /\ StartsWith(dest, DotSlash) \/ StartsWith(dest, DotDotSlash)
    /\ EndsWith(FilePath(dest), DotMd)

\* C11: transform_wiki_links rewrites a link only when its destination
\* starts with ./ or ../ and its file path (the part before the first #)
\* ends with .md; absolute URLs, bare anchors and targets that are not .md
\* files are left unchanged.
C11_RewritesOnlyRelativeMd ==
    (pc = "done" /\ transform_fn = "links" /\ output # content)
        => RelativeMd(TheDestination(content))

\* ------------------------------------------------------------------------
\* Properties of the page name
\* ------------------------------------------------------------------------

\* the page-name part of a result: the part before the first "#"
PageName(page) == FilePath(page)

\* C12: for every destination the link pattern can match, the page-name
\* part of the result of transform_path_to_wiki_page is non-empty.
C12_PageNameNonEmpty ==
    (pc = "named" /\ DestMatches(path_arg)) => PageName(wiki_page) # <<>>

\* C13: the page-name part of the result never contains the character "/".
C13_NoSlashInPageName ==
    pc = "named" => NoneOf(PageName(wiki_page), {"/"})

\* C13 witness: a returned page name built from a path of several segments
C13_Witness ==
    /\ pc = "named"
    /\ Len(parts) >= 2
    /\ Contains(path, <<"/">>)
    /\ \E k \in 1..Len(parts) : parts[k] # <<>>
    /\ PageName(wiki_page) # <<>>

\* C14: the page name does not begin with "-", does not end with "-" and
\* does not contain "--", whatever empty segments or empty hyphen words the
\* path has.
C14_NoStrayHyphens ==
    pc = "named" =>
        LET name == PageName(wiki_page)
        IN  /\ ~StartsWith(name, <<"-">>)
            /\ ~EndsWith(name, <<"-">>)
            /\ ~Contains(name, <<"-", "-">>)

\* the anchor of a path: its first "#" and everything after it
AnchorOf(p) == SubSeq(p, Len(FilePath(p)) + 1, Len(p))

\* C15: the result ends with exactly the first "#" of the input and
\* everything after it, character for character, and what precedes it is
\* the page name of the input without its anchor: the anchor does not
\* influence the page name, nor the path the anchor.
C15_AnchorPreserved ==
    pc = "named" =>
        /\ wiki_page = transform_path_to_wiki_page(FilePath(path_arg)) \o AnchorOf(path_arg)
        /\ NoneOf(transform_path_to_wiki_page(FilePath(path_arg)), {"#"})

\* C15 witness: a returned page whose anchor holds an upper-case letter, a
\* slash, a dot, a hyphen and a second "#", behind a path that was renamed
C15_Witness ==
    /\ pc = "named"
    /\ PageName(wiki_page) # <<>>
    /\ PageName(wiki_page) # FilePath(path_arg)
    /\ \A c \in {"A", "/", ".", "-"} : \E k \in 1..Len(anchor) : anchor[k] = c
    /\ \E k \in 2..Len(anchor) : anchor[k] = "#"
    /\ EndsWith(wiki_page, anchor)

\* s is a stack of "./" and "../" prefixes
RECURSIVE PrefixStack(_)
PrefixStack(s) ==
    \/ s = <<>>
    \/ StartsWith(s, DotSlash) /\ PrefixStack(SubSeq(s, 3, Len(s)))
    \/ StartsWith(s, DotDotSlash) /\ PrefixStack(SubSeq(s, 4, Len(s)))

\* a equals b in some letter case (b is upper-case)
SameLetters(a, b) ==
    Len(a) = Len(b) /\ \A k \in 1..Len(a) : ToUpper(a[k]) = b[k]

\* p is a stack of prefixes, then name in any letter case, then .md or nothing
Names(p, name) ==
    \E k \in 0..Len(p) :
        /\ PrefixStack(SubSeq(p, 1, k))
        /\ \/ SameLetters(SubSeq(p, k + 1, Len(p)), name)
           \/ /\ EndsWith(p, DotMd)
              /\ Len(p) - 3 >= k
              /\ SameLetters(SubSeq(p, k + 1, Len(p) - 3), name)

\* C16: a path that, after all its leading ./ and ../ prefixes and a trailing
\* .md are stripped, is README in any letter case gives exactly Home plus the
\* anchor; one that is CHANGELOG in any letter case gives exactly the
\* upper-case CHANGELOG plus the anchor.
C16_SpecialPages ==
    pc = "named" =>
        /\ Names(FilePath(path_arg), README) => wiki_page = Home \o AnchorOf(path_arg)
        /\ Names(FilePath(path_arg), CHANGELOG) => wiki_page = CHANGELOG \o AnchorOf(path_arg)

\* C16 witness: a mixed-case readme behind a prefix, returned as Home
C16_Witness ==
    /\ pc = "named"
    /\ HasPrefix(path_arg)
    /\ EndsWith(path_arg, DotMd)
    /\ Names(path_arg, README)
    /\ path_arg # DotSlash \o README \o DotMd
    /\ wiki_page = Home

\* C17: a further ./ or ../ in front of any path leaves the result unchanged,
\* each iteration of the stripping loop shortens the path, and the loop ends
\* with a path that starts with neither prefix.
C17_PrefixInvariant ==
    /\ [](pc = "named" =>
            /\ transform_path_to_wiki_page(DotSlash \o path_arg) = wiki_page
            /\ transform_path_to_wiki_page(DotDotSlash \o path_arg) = wiki_page)
    /\ [][(pc = "strip" /\ pc' = "strip") => Len(path') < Len(path)]_vars
    /\ [][(pc = "strip" /\ pc' # "strip") => ~HasPrefix(path)]_vars

\* C17 witness: a returned page for a path with a mixture of stacked prefixes
C17_Witness ==
    /\ pc = "named"
    /\ \/ StartsWith(path_arg, DotSlash \o DotDotSlash)
       \/ StartsWith(path_arg, DotDotSlash \o DotSlash)
    /\ PageName(wiki_page) # <<>>

\* p without a single leading docs/ in any letter case
WithoutDocs(p) ==
    IF Len(p) >= 5 /\ \A k \in 1..5 : ToLower(p[k]) = DocsSlash[k]
    THEN SubSeq(p, 6, Len(p))
    ELSE p

\* position k of p starts a hyphen-delimited word
WordStart(p, k) == p[k] \notin {"/", "-"} /\ (k = 1 \/ p[k - 1] \in {"/", "-"})

\* an earlier word of the same segment precedes position k
WordBefore(p, k) ==
    \E j \in 1..(k - 1) :
        /\ p[j] \notin {"/", "-"}
        /\ \A q \in j..(k - 1) : p[q] # "/"

\* what position k of p contributes to the title-cased name: a "/" becomes
\* the "-" between segments, a "-" contributes nothing of its own, the first
\* character of a word is upper-cased (behind a "-" when a word of the same
\* segment precedes it), any other character is lower-cased
TitleCasedAt(p, k) ==
    IF p[k] = "/" THEN <<"-">>
    ELSE IF p[k] = "-" THEN <<>>
    ELSE IF WordStart(p, k)
    THEN (IF WordBefore(p, k) THEN <<"-">> ELSE <<>>) \o <<ToUpper(p[k])>>
    ELSE LowerOf(p[k])

TitleCased(p) == Concat([k \in 1..Len(p) |-> TitleCasedAt(p, k)])

\* the path is README or CHANGELOG in some letter case
SpecialCase(p) == SameLetters(p, README) \/ SameLetters(p, CHANGELOG)

\* C18: for a path that is not a special case, after the prefixes, .md and a
\* single leading docs/ (in any letter case) are stripped, the page name is
\* the segments joined by "-", each non-empty hyphen-delimited word with its
\* first character upper-cased and the others lower-cased.
C18_TitleCased ==
    LET stripped == StripMd(StripPrefixes(FilePath(path_arg)))
    IN  (pc = "named" /\ ~SpecialCase(stripped)) =>
            wiki_page = TitleCased(WithoutDocs(stripped)) \o AnchorOf(path_arg)

\* C18 witness: Docs/x/aB-c returned as X-Ab-C
C18_Witness ==
    /\ pc = "named"
    /\ path_arg = <<"D","o","c","s","/", "x","/", "a","B","-","c">>
    /\ wiki_page = <<"X", "-", "A", "b", "-", "C">>

\* ------------------------------------------------------------------------
\* Properties of the image pattern
\* ------------------------------------------------------------------------

\* the path of an image reference is external
External(p) ==
    StartsWith(p, HttpPrefix) \/ StartsWith(p, HttpsPrefix) \/ StartsWith(p, SlashSlash)

\* images/ in some letter case occurs in p at the 0-based index k
ImagesAt(p, k) ==
    /\ k + 7 <= Len(p)
    /\ \A j \in 1..7 : ToLower(p[k + j]) = ImagesSlash[j]

\* C19: transform_image_paths leaves unchanged every image reference whose
\* path begins with http://, https:// or //, even when the path contains
\* images/.
C19_ExternalImageUnchanged ==
    (pc = "done" /\ transform_fn = "images" /\ External(TheDestination(content)))
        => output = content

\* C19 witness: a finished call on an external image whose path holds images/
C19_Witness ==
    /\ pc = "done"
    /\ transform_fn = "images"
    /\ StartsWith(TheDestination(content), HttpsPrefix)
    /\ \E k \in 0..Len(content) : ImagesAt(TheDestination(content), k)
    /\ output = content

\* C20: for an image reference outside code whose path is not external, the
\* output path is the path from its first images/ (in any letter case) to
\* its end, in the original letter case and with the alt text unchanged;
\* without such an occurrence the reference is left unchanged.
C20_ImagePathNormalized ==
    (pc = "done" /\ transform_fn = "images" /\ ~External(TheDestination(content))) =>
        LET p    == TheDestination(content)
            head == SubSeq(content, 1, Len(content) - Len(p) - 1)
            hits == {k \in 0..Len(p) : ImagesAt(p, k)}
            k0   == CHOOSE k \in hits : \A j \in hits : k <= j
        IN  IF hits = {} THEN output = content
            ELSE output = head \o SliceFrom(p, k0) \o <<")">>

\* ------------------------------------------------------------------------
\* Properties of the placeholders and of the scanner state
\* ------------------------------------------------------------------------

\* the main loop of the guard is over and the tail of the call is next
AtLoopExit == pc = "scan" /\ pos >= Len(text)

\* C21: no placeholder token inserted by the guard equals a substring of
\* the input span, so the restore step replaces only the occurrences the
\* guard inserted and puts every protected span back once, where it was.
C21_NoTokenCollision ==
    AtLoopExit =>
        /\ \A idx \in 0..(Len(placeholders) - 1) : ~Contains(text, Token(idx))
        /\ RestorePlaceholders(result, placeholders) = text

\* ------------------------------------------------------------------------
\* Properties of concurrent calls
\* ------------------------------------------------------------------------

\* C22: two calls made concurrently are independent. Whatever the
\* interleaving of their steps, each call enters every transformable span
\* with a fresh placeholder table, position, link-text flag and bracket
\* depth, no step changes the locals of the other call, and each call
\* returns what it returns when it runs alone on its document.
C22_CallsIndependent ==
    /\ [](\A c \in Callers :
            /\ (calls[c].pc = "done" =>
                    calls[c].output =
                        _transform_preserving_code_blocks(calls[c].content,
                                                          calls[c].transform_fn))
            /\ ((calls[c].pc = "scan" /\ calls[c].frame.pos = 0) =>
                    calls[c].frame = GuardInit(calls[c].frame.text)))
    /\ [][\A c \in Callers :
            calls'[c] # calls[c] => \A d \in Callers \ {c} : calls'[d] = calls[d]]_vars

\* both calls have returned, on different documents, each after protecting
\* inline code and rewriting a link
C22_Witness ==
    /\ calls # <<>>
    /\ calls[1].content # calls[2].content
    /\ \A c \in Callers :
        /\ calls[c].pc = "done"
        /\ calls[c].transform_fn = "links"
        /\ Contains(calls[c].content, CodeFrag)
        /\ Contains(calls[c].output, CodeFrag)
        /\ Contains(calls[c].output, LinkFragOut)

\* ------------------------------------------------------------------------
\* Properties of the scan: backticks, brackets and destinations
\* ------------------------------------------------------------------------

\* an iteration of the main loop is about to run outside link text
InNormalMode == pc = "scan" /\ pos < Len(text) /\ ~in_link_text

\* a backtick at index p of t that no backtick follows
UnclosedSingle(t, p) == At(t, p) = BT /\ Find(t, <<BT>>, p + 1) = -1

\* a double backtick at index p of t that no double backtick follows
UnclosedDouble(t, p) ==
    Slice(t, p, p + 2) = <<BT, BT>> /\ Find(t, <<BT, BT>>, p + 2) = -1

\* the iteration copies what it passes over and appends no placeholder
CopiesLiterally ==
    /\ placeholders' = placeholders
    /\ result' = result \o Slice(text, pos, pos')
    /\ ~in_link_text'

\* the first transformable span of the document
FirstSpan(c) == fenced_split(c)[1]

\* the characters that change how the scan reaches a later position
ScanMarks == {"[", BT, "~", NUL}

ClosesBrackets ==
    /\ pc = "scan"
    /\ pos < Len(text)
    /\ in_link_text
    /\ At(text, pos) = "]"
    /\ bracket_depth = 1

\* after the "]" at the position of the scan and the blanks, a "(" follows
ParenFollows ==
    LET q == SkipBlanks(text, pos + 1)
    IN  q < Len(text) /\ At(text, q) = "("

\* [a]
BracketPair == <<"[", "a", "]">>

\* C24: when a "]" brings the bracket depth to 0 and no "(" follows the
\* optional blanks, the iteration copies the "]" alone and the scan is
\* outside link text at the next character; an inline-code span that
\* starts after such brackets is protected, so a link inside it is kept.
C24_NonLinkBrackets ==
    /\ [][(ClosesBrackets /\ ~ParenFollows) =>
            /\ ~in_link_text'
            /\ bracket_depth' = 0
            /\ pos' = pos + 1
            /\ result' = Append(result, "]")
            /\ placeholders' = placeholders]_vars
    /\ [](pc = "done" =>
            \A a \in 0..Len(FirstSpan(content)) :
                LET t == FirstSpan(content)
                    q == SkipBlanks(t, a + 3)
                IN  (/\ NoneOf(Slice(t, 0, a), ScanMarks)
                     /\ OccursAt(t, BracketPair, a)
                     /\ OccursAt(t, CodeFrag, q))
                    => StartsWith(output, Slice(t, 0, q) \o CodeFrag))

\* the call has returned on brackets that are no link, a blank, and inline
\* code that holds a link: the code was protected and the link is kept
C24_Witness ==
    /\ pc = "done"
    /\ content = BracketPair \o <<" ">> \o CodeFrag
    /\ placeholders = <<CodeFrag>>
    /\ output = content

\* the number of indices in a..b at which t holds the character ch
CountOf(t, ch, a, b) == Cardinality({k \in a..b : k < Len(t) /\ At(t, k) = ch})

\* the index of the ")" that balances the "(" at index o of t: the first
\* index up to which as many ")" as "(" occur from o on; -1 without one
BalancingParen(t, o) ==
    LET closes == {e \in (o + 1)..(Len(t) - 1) :
                      CountOf(t, "(", o, e) = CountOf(t, ")", o, e)}
    IN  IF closes = {} THEN -1
        ELSE CHOOSE e \in closes : \A f \in closes : e <= f

\* C25: when a "]" brings the bracket depth to 0 and a "(" follows the
\* optional blanks, the iteration copies the blanks and the destination
\* verbatim, up to and including the ")" that balances the "(", appends no
\* placeholder for a backtick in it, and leaves the scan outside link text
\* right after that ")"; inline code that follows the link is protected:
\* the output has the link, rewritten or not, and then the code unchanged.
C25_DestinationVerbatim ==
    /\ [][(ClosesBrackets /\ ParenFollows) =>
            LET e == BalancingParen(text, SkipBlanks(text, pos + 1))
            IN  e # -1 =>
                    /\ pos' = e + 1
                    /\ result' = result \o Slice(text, pos, e + 1)
                    /\ placeholders' = placeholders
                    /\ ~in_link_text']_vars
    /\ [](pc = "done" =>
            \A a \in 0..Len(FirstSpan(content)) :
                LET t == FirstSpan(content)
                    q == SkipBlanks(t, a + 3)
                    e == BalancingParen(t, q)
                IN  (/\ NoneOf(Slice(t, 0, a), ScanMarks)
                     /\ OccursAt(t, BracketPair, a)
                     /\ OccursAt(t, <<"(">>, q)
                     /\ e # -1
                     /\ NoneOf(Slice(t, q, e + 1), {"[", NUL})
                     /\ OccursAt(t, CodeFrag, e + 1))
                    => StartsWith(output,
                           _transform_links_in_text(Slice(t, 0, e + 1)) \o CodeFrag))

\* the call has returned on a link whose destination, after blanks, holds
\* nested parentheses and a backtick, with inline code right after it: the
\* destination made no placeholder, the code after it was protected
C25_Witness ==
    /\ pc = "done"
    /\ content = BracketPair \o <<" ", "\t", "(">> \o ParenFrag \o <<")">> \o CodeFrag
    /\ placeholders = <<CodeFrag>>
    /\ output = content

\* ------------------------------------------------------------------------
\* Properties of the fences
\* ------------------------------------------------------------------------

\* the index in the document at which part k of the split starts
PartStart(k) == Len(Concat(SubSeq(fenced_parts, 1, k - 1)))

\* the parts of the split at odd indices, as pairs <<start, end>>
FencedParts ==
    {<<PartStart(k), PartStart(k) + Len(fenced_parts[k])>> :
        k \in {j \in 1..Len(fenced_parts) : (j - 1) % 2 = 1}}

\* C26: every opening marker is closed by the nearest following marker of
\* its own style, a marker of the other style inside the block closing
\* nothing; the blocks are returned unchanged, and a relative .md link at
\* the start of the text between two blocks, or before the first or after
\* the last, is rewritten.
C26_FencePairing ==
    pc = "done" =>
        /\ FencedParts = FencedBlocks(content)
        /\ \A b \in FencedParts :
              LET m == MarkerAt(content, b[1])
              IN  /\ m # <<>>
                  /\ Find(content, m, b[1] + 3) = b[2] - 3
        /\ Len(result_parts) = Len(fenced_parts)
        /\ output = Concat(result_parts)
        /\ \A k \in 1..Len(fenced_parts) :
              IF (k - 1) % 2 = 1 THEN result_parts[k] = fenced_parts[k]
              ELSE OccursAt(fenced_parts[k], LinkFrag, 0)
                       => StartsWith(result_parts[k], LinkFragOut)

\* the call has returned on a tilde block that holds a backtick marker, a
\* link, and a backtick block: two blocks, the link between them rewritten
C26_Witness ==
    /\ pc = "done"
    /\ content = MixedBlock \o LinkFrag \o Backticks3 \o Backticks3
    /\ FencedParts = {<<0, 9>>, <<20, 26>>}
    /\ output = MixedBlock \o LinkFragOut \o Backticks3 \o Backticks3

\* ------------------------------------------------------------------------
\* Properties of the restore step
\* ------------------------------------------------------------------------

\* the placeholders put back one by one, in the order the sequence gives
RestoreInOrder(transformed, spans, order) ==
    LET F[k \in 0..Len(order)] ==
            IF k = 0 THEN transformed
            ELSE Replace(F[k - 1], Token(order[k]), spans[order[k] + 1], 0)
    IN  F[Len(order)]

\* orders of the indices 0..n-1: descending, and ascending from each index
\* on, wrapping around
RestoreOrders(n) ==
    {[k \in 1..n |-> n - k]} \cup {[k \in 1..n |-> (k - 1 + r) % n] : r \in {0, 1, n \div 2}}

\* C27: for a span without NUL, at the end of the main loop no token is a
\* substring of another token or of a protected code span (the token of
\* index 1 is not contained in the token of index 10), putting the spans
\* back in another order gives the same text as the order of the code, and
\* with nothing transformed in between that text is the span itself.
C27_RestoreOrderIndependent ==
    (AtLoopExit /\ NoneOf(text, {NUL})) =>
        LET n == Len(placeholders)
        IN  /\ \A a, b \in 0..(n - 1) :
                  /\ (a # b => ~Contains(Token(a), Token(b)))
                  /\ ~Contains(placeholders[a + 1], Token(b))
            /\ \A order \in RestoreOrders(n) :
                  RestoreInOrder(result, placeholders, order) = text
            /\ RestorePlaceholders(result, placeholders) = text

\* the main loop is over with eleven spans protected: the tokens of index 1
\* and of index 10 are both in the protected text
C27_Witness ==
    /\ AtLoopExit
    /\ Len(placeholders) = 11
    /\ Contains(result, Token(1))
    /\ Contains(result, Token(10))
    /\ Contains(text, LinkFrag)

\* ------------------------------------------------------------------------
\* Properties of repeated and of paired transformations
\* ------------------------------------------------------------------------

\* C28: image normalization is idempotent: normalizing the returned
\* document again returns it unchanged.
C28_ImageIdempotent ==
    (pc = "done" /\ transform_fn = "images") => transform_image_paths(output) = output

\* both names are known: the file name and the page the link points to
PageNamed == pc = "named" /\ wiki_name # <<>>

\* C29: for a markdown file of docs/, the file name prepare_wiki writes is
\* the page a link to that file is rewritten to, followed by .md.
C29_LinkMatchesPageName ==
    PageNamed => wiki_name = wiki_page \o DotMd

\* ------------------------------------------------------------------------
\* Properties of the scanner state
\* ------------------------------------------------------------------------

\* the number of placeholder tokens in the text t
TokenCount(t) ==
    Cardinality({k \in 0..(Len(t) - 1) : \E idx \in 0..Len(t) : OccursAt(t, Token(idx), k)})

\* at the head of an iteration the scanner state is consistent
ScannerStateConsistent ==
    /\ in_link_text => bracket_depth >= 1
    /\ bracket_depth >= 0

\* C30: at the head of every iteration of the main loop, in_link_text holds
\* only with a bracket depth of at least 1, the depth is never negative, and
\* the protected text holds as many tokens as the table has placeholders; a
\* placeholder is appended only by an iteration that starts outside link
\* text.
C30_ScannerInvariant ==
    /\ [](pc = "scan" =>
            /\ ScannerStateConsistent
            /\ TokenCount(result) = Len(placeholders))
    /\ [][(pc = "scan" /\ placeholders' # placeholders) => ~in_link_text]_vars

====
